---- MODULE Spec2Model ----
(***************************************************************************)
(* Model of goenrich/enrich.py: set_background, calculate_pvalues and      *)
(* multiple_testing_correction acting on one ontology graph G.             *)
(*                                                                         *)
(* A Python dict is a function whose DOMAIN is the set of keys present:    *)
(* `k in d` is k \in DOMAIN d, `del d[k]` restricts the domain, and        *)
(* `d[k] = v` overrides.  A float p-value is kept as an exact fraction     *)
(* [num, den]; NaN is the fraction 0/0, and every comparison with it is    *)
(* false, as in IEEE arithmetic.                                           *)
(***************************************************************************)
EXTENDS Integers, FiniteSets, Sequences, TLC

VARIABLES
  edges,    \* the edges child -> parent of G
  node,     \* G.node: the attribute dict of every term
  graph,    \* G.graph: 'roots' and what multiple_testing_correction records
  pvalues,  \* the p-value map the caller holds: none, or the one last returned
  last      \* the last call: the operation, its arguments, what it raised

vars == <<edges, node, graph, pvalues, last>>

(***************************************************************************)
(* Bounds of the model.                                                    *)
(***************************************************************************)
MaxEntry == 2          \* entry ids of the query model are 1..MaxEntry
MaxRows == 1           \* rows of a background table of the query model
MaxBgEntry == 2        \* entry ids of the propagation model
MaxBgRows == 2         \* rows of a background table of the propagation model
MaxHitSize == 1        \* min_hit_size ranges over 0..MaxHitSize
MaxCategorySize == 2   \* min/max_category_size range over 0..MaxCategorySize

Terms == 1..4
\* category ids of a table: the terms and one id that is no node of G
Categories == 1..5

(***************************************************************************)
(* dict helpers                                                            *)
(***************************************************************************)
Has(d, k) == k \in DOMAIN d
Set(d, k, v) == (k :> v) @@ d
Del(d, keys) == [k \in (DOMAIN d) \ keys |-> d[k]]
Get(d, k, default) == IF k \in DOMAIN d THEN d[k] ELSE default

Min(S) == CHOOSE x \in S : \A y \in S : x <= y

(***************************************************************************)
(* The ontology graphs given to the program: edges child -> parent, the    *)
(* node attribute namespace, and G.graph['roots'].                         *)
(***************************************************************************)
Diamond ==
  [edges |-> {<<4, 2>>, <<4, 3>>, <<2, 1>>, <<3, 1>>},
   namespace |-> [t \in Terms |-> "BP"],
   roots |-> [BP |-> 1]]

\* two namespaces, and the edge 3 -> 4 leaves the namespace of 3
Cross ==
  [edges |-> {<<3, 1>>, <<3, 4>>, <<4, 2>>},
   namespace |-> [t \in Terms |-> IF t \in {1, 3} THEN "BP" ELSE "MF"],
   roots |-> [BP |-> 1, MF |-> 2]]

\* term 3 has no path to its root, the namespace of term 4 has no root
Orphan ==
  [edges |-> {<<2, 1>>, <<4, 3>>},
   namespace |-> [t \in Terms |-> IF t = 4 THEN "CC" ELSE "BP"],
   roots |-> [BP |-> 1]]

Graphs == {Diamond, Cross, Orphan}

(***************************************************************************)
(* networkx all_simple_paths(G, source, target): depth-first, one path per *)
(* way of reaching target without repeating a node.  A path has at least   *)
(* one edge: with source = target and no cycle nothing is generated.       *)
(***************************************************************************)
Range(s) == {s[i] : i \in 1..Len(s)}

RECURSIVE SimplePathsFrom(_, _, _)
SimplePathsFrom(E, visited, target) ==
  LET children == {e[2] : e \in {d \in E : d[1] = visited[Len(visited)]}}
  IN UNION {IF child = target THEN {Append(visited, target)}
            ELSE IF child \in Range(visited) THEN {}
            ELSE SimplePathsFrom(E, Append(visited, child), target)
            : child \in children}

all_simple_paths(E, source, target) == SimplePathsFrom(E, <<source>>, target)

(***************************************************************************)
(* set_background                                                          *)
(***************************************************************************)
\* len(df[entry_id].unique())
DistinctEntries(table) == Cardinality({r[1] : r \in table})

\* ResetBackground without the clearing of line 51: an earlier background stays
ResetBackgroundKeeping(nd, M) ==
  [t \in Terms |->
     Set(IF Has(nd[t], "background") THEN nd[t]
         ELSE Set(nd[t], "background", {}), "M", M)]

\* lines 49-52: every node gets an empty background and M
ResetBackground(nd, M) ==
  [t \in Terms |-> Set(Set(nd[t], "background", {}), "M", M)]

\* df.groupby(category_id)[entry_id]: the entries of one category
Entries(table, term) == {r[1] : r \in {s \in table : s[2] = term}}

\* UnionAlongPaths reaching only the two ends of each path
UnionAtPathEnds(E, nd, term, root, entries) ==
  LET ends == UNION {{path[1], path[Len(path)]}
                     : path \in all_simple_paths(E, term, root)}
  IN [t \in Terms |->
        IF t \in ends
        THEN Set(nd[t], "background", nd[t]["background"] \cup entries)
        ELSE nd[t]]

\* lines 58-61: the entries of term are united into every node of every path
UnionAlongPaths(E, nd, term, root, entries) ==
  LET onPath == UNION {Range(path) : path \in all_simple_paths(E, term, root)}
  IN [t \in Terms |->
        IF t \in onPath
        THEN Set(nd[t], "background", nd[t]["background"] \cup entries)
        ELSE nd[t]]

\* lines 55-61: the groups in ascending order of category id; a category that
\* is no node, or whose namespace has no root, raises KeyError and leaves the
\* groups before it propagated
RECURSIVE PropagateGroups(_, _, _, _, _)
PropagateGroups(E, roots, nd, table, cats) ==
  IF cats = {} THEN [node |-> nd, raised |-> "none"]
  ELSE LET term == Min(cats)
       IN IF term \notin Terms THEN [node |-> nd, raised |-> "KeyError"]
          ELSE IF ~Has(roots, nd[term]["namespace"])
          THEN [node |-> nd, raised |-> "KeyError"]
          ELSE PropagateGroups(E, roots,
                 UnionAlongPaths(E, nd, term, roots[nd[term]["namespace"]],
                                 Entries(table, term)),
                 table, cats \ {term})

set_background(E, G, nd, table) ==
  PropagateGroups(E, G["roots"], ResetBackground(nd, DistinctEntries(table)),
                  table, {r[2] : r \in table})

SetBackground(table) ==
  \E r \in {set_background(edges, graph, node, table)} :
     /\ node' = r.node
     /\ last' = [op |-> "set_background", raised |-> r.raised, table |-> table]
     /\ UNCHANGED <<edges, graph, pvalues>>

(***************************************************************************)
(* Exact fractions for the floats p, q and alpha.                          *)
(***************************************************************************)
Frac(a, b) == [num |-> a, den |-> b]
NaN == Frac(0, 0)
IsNaN(a) == a.den = 0
FracLt(a, b) == ~IsNaN(a) /\ ~IsNaN(b) /\ a.num * b.den < b.num * a.den
FracLe(a, b) == ~IsNaN(a) /\ ~IsNaN(b) /\ a.num * b.den <= b.num * a.den
FracEq(a, b) == ~IsNaN(a) /\ ~IsNaN(b) /\ a.num * b.den = b.num * a.den
\* a float times an int
FracTimes(a, k) == IF IsNaN(a) THEN NaN ELSE Frac(a.num * k, a.den)

RECURSIVE Binomial(_, _)
Binomial(n, k) ==
  IF k < 0 \/ k > n THEN 0
  ELSE IF k = 0 THEN 1
  ELSE (Binomial(n - 1, k - 1) * n) \div k

RECURSIVE SumTail(_, _, _, _, _)
\* sum over j in from..to of C(n, j) * C(M - n, N - j)
SumTail(from, to, M, n, N) ==
  IF from > to THEN 0
  ELSE Binomial(n, from) * Binomial(M - n, N - from)
         + SumTail(from + 1, to, M, n, N)

(***************************************************************************)
(* scipy.stats.hypergeom.sf(k, M, n, N): the survival function 1 - cdf(k), *)
(* that is P(X > k), as a fraction over C(M, N); NaN when the arguments    *)
(* fail scipy's check M > 0, 0 <= n <= M, 0 <= N <= M.                     *)
(***************************************************************************)
hypergeom_argcheck(M, n, N) == M > 0 /\ n >= 0 /\ N >= 0 /\ n <= M /\ N <= M

hypergeom_sf(k, M, n, N) ==
  IF ~hypergeom_argcheck(M, n, N) THEN NaN
  ELSE Frac(SumTail(k + 1, IF n < N THEN n ELSE N, M, n, N), Binomial(M, N))

(***************************************************************************)
(* calculate_pvalues                                                       *)
(***************************************************************************)
QueryAttrs == {"query", "n", "N", "hits", "x", "p", "q", "significant"}

\* ResetQueryAttrs with 'q' and 'significant' missing from the list of line 79
ResetQueryAttrsKeepingCorrection(d) == Del(d, QueryAttrs \ {"q", "significant"})

\* lines 79-81
ResetQueryAttrs(d) == Del(d, QueryAttrs)

\* line 85, a chained comparison: max_category_size < n and n < min_category_size
SkipCategory(n, min_category_size, max_category_size) ==
  max_category_size < n /\ n < min_category_size

\* lines 77-101 for one node: the node after the iteration, whether it put a
\* p-value into the map, and what it raised
VisitNode(d0, query_set, min_hit_size, min_category_size, max_category_size) ==
  LET d == ResetQueryAttrs(d0)
      background == Get(d, "background", {})
      n == Cardinality(background)
      hits == query_set \cap background
      x == Cardinality(hits)
      N == Cardinality(query_set)
      d1 == Set(d, "n", n)
      d2 == Set(Set(Set(Set(d1, "query", query_set), "N", N), "hits", hits),
                "x", x)
  IN IF SkipCategory(n, min_category_size, max_category_size)
     THEN [node |-> d, kept |-> FALSE, raised |-> "none"]
     ELSE IF x < min_hit_size
     THEN [node |-> d1, kept |-> FALSE, raised |-> "none"]
     ELSE IF ~Has(d2, "M")
     THEN [node |-> d2, kept |-> FALSE, raised |-> "KeyError"]
     ELSE [node |-> Set(d2, "p", hypergeom_sf(x, d2["M"], d2["n"], N)),
           kept |-> TRUE, raised |-> "none"]

\* lines 76-101: the nodes in the order of G (here the order of their ids); an
\* exception ends the loop and leaves the nodes after it untouched
RECURSIVE VisitNodes(_, _, _, _, _, _, _)
VisitNodes(nd, pv, i, query_set, min_hit_size, min_category_size, max_category_size) ==
  IF i \notin Terms THEN [node |-> nd, pvalues |-> pv, raised |-> "none"]
  ELSE LET v == VisitNode(nd[i], query_set, min_hit_size, min_category_size,
                          max_category_size)
           nd1 == [nd EXCEPT ![i] = v.node]
       IN IF v.raised # "none"
          THEN [node |-> nd1, pvalues |-> pv, raised |-> v.raised]
          ELSE VisitNodes(nd1,
                 IF v.kept THEN (i :> v.node["p"]) @@ pv ELSE pv,
                 i + 1, query_set, min_hit_size, min_category_size,
                 max_category_size)

calculate_pvalues(nd, query_set, min_hit_size, min_category_size, max_category_size) ==
  VisitNodes(nd, <<>>, 1, query_set, min_hit_size, min_category_size,
             max_category_size)

\* pvalues holds the map the caller has got back, if any: it is assigned only
\* when the call returns
CalculatePvalues(query, min_hit_size, min_category_size, max_category_size) ==
  \E r \in {calculate_pvalues(node, query, min_hit_size, min_category_size,
                               max_category_size)} :
     /\ node' = r.node
     /\ pvalues' = IF r.raised = "none" THEN {r.pvalues} ELSE pvalues
     /\ last' = [op |-> "calculate_pvalues", raised |-> r.raised,
                 query |-> query, min_hit_size |-> min_hit_size,
                 min_category_size |-> min_category_size,
                 max_category_size |-> max_category_size]
     /\ UNCHANGED <<edges, graph>>

(***************************************************************************)
(* statsmodels fdrcorrection(pvals, alpha): the Benjamini-Hochberg step-up *)
(* procedure.  With the p-values sorted ascending (NaN last) and i the     *)
(* 1-based position of a value among the n, a value is rejected when some  *)
(* value at or after it is <= alpha * i / n, and its corrected value is    *)
(* the least p * n / i at or after it, at most 1; one NaN makes every      *)
(* corrected value NaN (numpy.minimum.accumulate from the end).            *)
(***************************************************************************)
\* the last position of the value pv[u] in the sorted array
SortedPosition(pv, u) ==
  Cardinality({v \in DOMAIN pv : FracLe(pv[v], pv[u])})

fdr_reject(pv, alpha, t) ==
  \E u \in DOMAIN pv :
     /\ FracLe(pv[t], pv[u])
     /\ pv[u].num * alpha.den * Cardinality(DOMAIN pv)
          <= alpha.num * SortedPosition(pv, u) * pv[u].den

fdr_corrected(pv, t) ==
  IF \E u \in DOMAIN pv : IsNaN(pv[u]) THEN NaN
  ELSE LET raw == {Frac(pv[u].num * Cardinality(DOMAIN pv),
                        pv[u].den * SortedPosition(pv, u))
                   : u \in {v \in DOMAIN pv : FracLe(pv[t], pv[v])}}
           least == CHOOSE c \in raw : \A d \in raw : FracLe(c, d)
       IN IF least.num > least.den THEN Frac(1, 1) ELSE least

(***************************************************************************)
(* multiple_testing_correction                                             *)
(***************************************************************************)
\* lines 110-111
UpdateGraphAttrs(G, alpha, method) ==
  Set(Set(G, "multiple-testing-correction", method), "alpha", alpha)

\* lines 113-118: the significance level compared with is the literal 0.05
Bonferroni(nd, pv, alpha) ==
  [t \in Terms |->
     IF t \in DOMAIN pv
     THEN LET q == FracTimes(pv[t], Cardinality(DOMAIN pv))
          IN Set(Set(nd[t], "q", q), "significant", FracLt(q, Frac(1, 20)))
     ELSE nd[t]]

\* lines 122-125
BenjaminiHochberg(nd, pv, alpha) ==
  [t \in Terms |->
     IF t \in DOMAIN pv
     THEN Set(Set(nd[t], "q", fdr_corrected(pv, t)),
              "significant", fdr_reject(pv, alpha, t))
     ELSE nd[t]]

\* lines 112-127; zip(*pvalues.items()) of an empty map has nothing to unpack
\* into terms, ps and raises ValueError
multiple_testing_correction(nd, pv, alpha, method) ==
  IF method = "bonferroni"
  THEN [node |-> Bonferroni(nd, pv, alpha), raised |-> "none"]
  ELSE IF method = "benjamini-hochberg"
  THEN IF DOMAIN pv = {}
       THEN [node |-> nd, raised |-> "ValueError"]
       ELSE [node |-> BenjaminiHochberg(nd, pv, alpha), raised |-> "none"]
  ELSE [node |-> nd, raised |-> "ValueError"]

\* called with the map the caller holds
MultipleTestingCorrection(alpha, method) ==
  \E pv \in pvalues :
  \E r \in {multiple_testing_correction(node, pv, alpha, method)} :
     /\ graph' = UpdateGraphAttrs(graph, alpha, method)
     /\ node' = r.node
     /\ last' = [op |-> "multiple_testing_correction", raised |-> r.raised,
                 alpha |-> alpha, method |-> method]
     /\ UNCHANGED <<edges, pvalues>>

(***************************************************************************)
(* Inputs and specifications                                               *)
(***************************************************************************)
TablesOver(entries, maxRows) ==
  {t \in SUBSET (entries \X Categories) : Cardinality(t) <= maxRows}

BgTables == TablesOver(1..MaxBgEntry, MaxBgRows)
Tables == TablesOver(1..MaxEntry, MaxRows)
Queries == SUBSET (1..MaxEntry)
Alphas == {Frac(1, 100), Frac(1, 5)}
Methods == {"bonferroni", "benjamini-hochberg", "holm"}

\* the graph as the ontology reader leaves it: every node has its namespace
\* and nothing else, G.graph has the roots
FreshNode(g) == [t \in Terms |-> [namespace |-> g.namespace[t]]]

InitGraph(g, held) ==
  /\ edges = g.edges
  /\ node = FreshNode(g)
  /\ graph = [roots |-> g.roots]
  /\ pvalues = held
  /\ last = [op |-> "graph", raised |-> "none"]

\* propagation alone, on every graph
InitBackground == \E g \in Graphs : InitGraph(g, {})

NextBackground == \E table \in BgTables : SetBackground(table)

SpecBackground == InitBackground /\ [][NextBackground]_vars

\* the three operations in any order on one graph
Init == InitGraph(Diamond, {})

Next ==
  \/ \E table \in Tables : SetBackground(table)
  \/ \E query \in Queries, min_hit_size \in 0..MaxHitSize,
        min_category_size \in 0..MaxCategorySize,
        max_category_size \in 0..MaxCategorySize :
        CalculatePvalues(query, min_hit_size, min_category_size,
                         max_category_size)
  \/ \E alpha \in Alphas, method \in Methods :
        MultipleTestingCorrection(alpha, method)

Spec == Init /\ [][Next]_vars

\* the correction alone, on a map of p-values the caller supplies
PvalueMaps ==
  UNION {[tested -> {Frac(1, 100), Frac(1, 25), Frac(1, 2)}]
         : tested \in SUBSET Terms}

InitCorrection == \E pv \in PvalueMaps : InitGraph(Diamond, {pv})

NextCorrection ==
  \E alpha \in Alphas, method \in Methods :
     MultipleTestingCorrection(alpha, method)

SpecCorrection == InitCorrection /\ [][NextCorrection]_vars

(***************************************************************************)
(* Properties of set_background                                            *)
(***************************************************************************)
Returned(op) == last.op = op /\ last.raised = "none"

RECURSIVE Descend(_, _)
\* the nodes reachable from the set S along edges, S included
Descend(E, S) ==
  LET more == S \cup {e[2] : e \in {d \in E : d[1] \in S}}
  IN IF more = S THEN S ELSE Descend(E, more)

Reaches(E, a, b) == b \in Descend(E, {a})

NamespaceRoot(t) == graph["roots"][node[t]["namespace"]]
HasNamespaceRoot(t) == Has(graph["roots"], node[t]["namespace"])

\* n lies on a path from c to the root of c's namespace, ends included
OnPathToRoot(c, n) ==
  /\ HasNamespaceRoot(c)
  /\ Reaches(edges, c, n)
  /\ Reaches(edges, n, NamespaceRoot(c))

\* C1: after set_background(G, table) returns, the background of every node n
\* is exactly the union of the entries of the categories c of the table such
\* that n lies on a path from c to the root of c's namespace, c and the root
\* included (so the entries of a root are in the background of the root).
C1_BackgroundIsUnionOverPaths ==
  Returned("set_background") =>
    \A n \in Terms :
      node[n]["background"] =
        UNION {Entries(last.table, c)
               : c \in {d \in Terms : OnPathToRoot(d, n)}}

\* the graph as it was constructed: each node with its namespace alone
Constructed == [t \in Terms |-> [namespace |-> node[t]["namespace"]]]

\* C7: the background and M of every node after set_background depend only
\* on the table of that call: they are what the same call leaves on a newly
\* constructed graph, whatever tables were set before, and M is one value
\* on all nodes.
C7_BackgroundDependsOnLastTable ==
  Returned("set_background") =>
    LET alone == set_background(edges, graph, Constructed, last.table).node
    IN /\ \A t \in Terms :
            /\ node[t]["background"] = alone[t]["background"]
            /\ node[t]["M"] = alone[t]["M"]
       /\ \A t, u \in Terms : node[t]["M"] = node[u]["M"]

\* a call has returned whose table annotates the shared child of the diamond:
\* the root holds the entry of this table and M counts it
C7_Witness ==
  /\ Returned("set_background")
  /\ edges = Diamond.edges
  /\ last.table = {<<2, 4>>}
  /\ node[1]["background"] = {2}
  /\ node[1]["M"] = 1

EveryTermReachesItsRoot ==
  \A t \in Terms :
    HasNamespaceRoot(t) /\ Reaches(edges, t, NamespaceRoot(t))

ParentsContainChildren ==
  \A e \in edges : node[e[1]]["background"] \subseteq node[e[2]]["background"]

\* C8 as claimed: after set_background returns on a graph in which every term
\* reaches its namespace root, the background of the parent of every edge
\* contains the background of the child.
C8_ParentContainsChild ==
  (Returned("set_background") /\ EveryTermReachesItsRoot)
    => ParentsContainChildren

NamespaceRoots == {graph["roots"][ns] : ns \in DOMAIN graph["roots"]}

\* every term reaches the root of its namespace and no root of another one
EveryTermReachesOnlyItsRoot ==
  \A t \in Terms :
    /\ HasNamespaceRoot(t)
    /\ Descend(edges, {t}) \cap NamespaceRoots = {NamespaceRoot(t)}

\* C8 amended: after set_background returns on a graph in which every term
\* reaches the root of its own namespace and the root of no other namespace,
\* the background of the parent of every edge contains the background of the
\* child.
C8_ParentContainsChildOneRoot ==
  (Returned("set_background") /\ EveryTermReachesOnlyItsRoot)
    => ParentsContainChildren

\* on the diamond the entries of the shared child 4 have reached both parents
C8_Witness ==
  /\ Returned("set_background")
  /\ EveryTermReachesOnlyItsRoot
  /\ node[4]["background"] # {}
  /\ node[2]["background"] = node[4]["background"]
  /\ node[3]["background"] = node[4]["background"]

(***************************************************************************)
(* Properties of calculate_pvalues                                         *)
(***************************************************************************)
BackgroundSize(t) == Cardinality(Get(node[t], "background", {}))
HitCount(t) == Cardinality(last.query \cap Get(node[t], "background", {}))

InSizeWindow(t) ==
  /\ last.min_category_size <= BackgroundSize(t)
  /\ BackgroundSize(t) <= last.max_category_size

\* C2: calculate_pvalues keeps only the terms whose background size n has
\* min_category_size <= n <= max_category_size: a term with n below the
\* minimum or above the maximum gets no p and is not in the returned map.
C2_SizeWindowIsInclusive ==
  Returned("calculate_pvalues") =>
    \A t \in Terms :
      ~InSizeWindow(t) =>
        /\ ~Has(node[t], "p")
        /\ \A pv \in pvalues : t \notin DOMAIN pv

\* P(X >= x): the tail that counts the observed x itself
InclusiveTail(x, M, n, N) ==
  Frac(SumTail(x, IF n < N THEN n ELSE N, M, n, N), Binomial(M, N))

\* C3: for every term retained by calculate_pvalues the recorded p is
\* P(X >= x), the hypergeometric tail that counts the observed x, for the
\* population M, n = |background|, N = |query| and x = |hits| of the term.
C3_PvalueCountsObserved ==
  Returned("calculate_pvalues") =>
    \A t \in Terms :
      (Has(node[t], "p") /\ hypergeom_argcheck(node[t]["M"], node[t]["n"],
                                                node[t]["N"]))
        => FracEq(node[t]["p"],
                  InclusiveTail(node[t]["x"], node[t]["M"], node[t]["n"],
                                node[t]["N"]))

PassesFilters(t) == InSizeWindow(t) /\ HitCount(t) >= last.min_hit_size

\* C5: after a calculate_pvalues call a term carries any of n, N, hits, x, p
\* only if it passed the size window and the hit threshold of this call, and
\* the terms carrying p are the keys of the returned map.
C5_FieldsOnlyOnRetainedTerms ==
  Returned("calculate_pvalues") =>
    /\ \A t \in Terms :
         (DOMAIN node[t] \cap {"n", "N", "hits", "x", "p"} # {})
           => PassesFilters(t)
    /\ \A pv \in pvalues : {t \in Terms : Has(node[t], "p")} = DOMAIN pv

\* the 'analyzed' state: nothing of a correction is left, and what a term
\* carries of a query was computed for the query of this call
Analyzed ==
  \A t \in Terms :
    /\ ~Has(node[t], "q")
    /\ ~Has(node[t], "significant")
    /\ (DOMAIN node[t] \cap {"query", "N", "hits", "x", "p"} # {}) =>
         /\ node[t]["query"] = last.query
         /\ node[t]["N"] = Cardinality(last.query)
         /\ node[t]["hits"] = last.query \cap Get(node[t], "background", {})
         /\ node[t]["x"] = HitCount(t)
    /\ Has(node[t], "p") =>
         /\ \A pv \in pvalues : t \in DOMAIN pv /\ pv[t] = node[t]["p"]
         /\ node[t]["n"] = BackgroundSize(t)

CorrectionAppears(t) ==
  \/ Has(node'[t], "q") /\ ~Has(node[t], "q")
  \/ Has(node'[t], "significant") /\ ~Has(node[t], "significant")

\* C6: in any sequence of calls the graph is 'analyzed' right after a
\* calculate_pvalues call (no q or significant of an earlier correction, no
\* p, hits, x or N of an earlier query), and q and significant appear on a
\* term only in a multiple_testing_correction call.
C6_CalculateReentersAnalyzed ==
  [][/\ (last'.op = "calculate_pvalues") => Analyzed'
     /\ \A t \in Terms :
          CorrectionAppears(t) => last'.op = "multiple_testing_correction"]_vars

\* a query has been analyzed on a graph that a correction was run on before,
\* and it retained a term
C6_Witness ==
  /\ Returned("calculate_pvalues")
  /\ Has(graph, "multiple-testing-correction")
  /\ graph["multiple-testing-correction"] \in {"bonferroni", "benjamini-hochberg"}
  /\ \E t \in Terms : Has(node[t], "p") /\ node[t]["x"] > 0

\* C9: excluding terms is never an error: calculate_pvalues, and after it
\* multiple_testing_correction with 'bonferroni' or 'benjamini-hochberg',
\* complete without raising on any graph, query and thresholds, also on a
\* graph without background and with an empty p-value map.
C9_ExclusionNeverRaises ==
  (\/ last.op = "calculate_pvalues"
   \/ /\ last.op = "multiple_testing_correction"
      /\ last.method \in {"bonferroni", "benjamini-hochberg"})
    => last.raised = "none"

(***************************************************************************)
(* Properties of multiple_testing_correction                               *)
(***************************************************************************)
\* C4: with method 'bonferroni' and k tested terms every tested term gets
\* q = p * k and significant = (q < alpha) for the alpha of the caller.
C4_BonferroniUsesAlpha ==
  (Returned("multiple_testing_correction") /\ last.method = "bonferroni") =>
    \A pv \in pvalues : \A t \in DOMAIN pv :
      /\ FracEq(node[t]["q"], FracTimes(pv[t], Cardinality(DOMAIN pv)))
      /\ node[t]["significant"] = FracLt(node[t]["q"], last.alpha)

\* C10: a call with a method other than 'bonferroni' and
\* 'benjamini-hochberg' fails and leaves the graph as it was: the nodes and
\* the graph attributes (method, alpha) are those before the call.
C10_UnknownMethodLeavesGraph ==
  [][(/\ last'.op = "multiple_testing_correction"
      /\ last'.method \notin {"bonferroni", "benjamini-hochberg"})
       => /\ last'.raised # "none"
          /\ node' = node
          /\ graph' = graph]_vars

====
